---- MODULE Spec2Model ----
(***************************************************************************)
(* Model of the HyperShift install asset builders                          *)
(* (cmd/install/assets/hypershift_operator.go) and of the "infra" destroy  *)
(* command (cmd/infra/destroy.go).                                         *)
(*                                                                         *)
(* Two specifications share the variables:                                 *)
(*   Spec     the builders as pure functions: Init draws one builder       *)
(*            configuration, one action per builder type applies Build.    *)
(*   SpecMem  the builders and NewDestroyCommand over an explicit heap,    *)
(*            so that aliasing between a builder, its results and the      *)
(*            results of other calls is visible.                           *)
(***************************************************************************)
EXTENDS Integers, Sequences, FiniteSets, TLC

VARIABLES
    builder,    \* Spec: the builder value Build is called on
    result,     \* Spec: what the call produced (NotBuilt before the call)
    heap,       \* SpecMem: address -> contents of a mutable memory cell
    objs,       \* SpecMem: the objects returned so far, as heap references
    snap,       \* SpecMem: the deep value of each returned object at return
    written     \* SpecMem: the <<object index, field>> pairs written through

vars == <<builder, result, heap, objs, snap, written>>

(***************************************************************************)
(* Bounds of the model.                                                    *)
(***************************************************************************)
MaxReplicas == 1
MaxBuilds == 2
MaxWrites == 2

(***************************************************************************)
(* Go values.                                                              *)
(***************************************************************************)
\* A nil pointer, a nil map, and the outcome of dereferencing a nil pointer.
Nil == [nil |-> TRUE]
NoLabels == << >>
Panic == [panic |-> "invalid memory address or nil pointer dereference"]
NotBuilt == [pending |-> TRUE]

\* fmt.Sprintf("%t", b)
FmtBool(b) == IF b THEN "true" ELSE "false"

\* strings.HasPrefix(s, prefix)
HasPrefix(s, prefix) ==
    Len(s) >= Len(prefix) /\ SubSeq(s, 1, Len(prefix)) = prefix

\* The elements of the sequence s, as a set.
Range(s) == {s[i] : i \in 1..Len(s)}

(***************************************************************************)
(* Constants of the package and of the packages it imports.                *)
(***************************************************************************)
EtcdPriorityClass == "hypershift-etcd"
APICriticalPriorityClass == "hypershift-api-critical"
DefaultPriorityClass == "hypershift-control-plane"

awsCredsSecretName == "hypershift-operator-aws-credentials"
\* Faulty variant: the key is renamed and the paths that spell it out are not.
awsCredsSecretKey_Renamed == "aws-credentials"
awsCredsSecretKey == "credentials"
oidcProviderS3CredsSecretName == "hypershift-operator-oidc-provider-s3-credentials"
externaDNSCredsSecretName == "external-dns-credentials"

\* hyperv1.NonePlatform, hyperv1.AWSPlatform, hyperv1.OperatorComponent
NonePlatform == "None"
AWSPlatform == "AWS"
OperatorComponent == "hypershift.openshift.io/operator-component"

\* The SchemeGroupVersion.String() of the API groups used.
CoreV1 == "v1"
AppsV1 == "apps/v1"
RbacV1 == "rbac.authorization.k8s.io/v1"
SchedulingV1 == "scheduling.k8s.io/v1"
MonitoringV1 == "monitoring.coreos.com/v1"

(***************************************************************************)
(* Namespace and Secrets.                                                  *)
(***************************************************************************)
\* Faulty variant: the monitoring label is set whatever the flag says.
HyperShiftNamespace_Build_AlwaysLabelled(o) ==
    [Kind |-> "Namespace", APIVersion |-> CoreV1, Name |-> o.Name,
     Labels |-> ("openshift.io/cluster-monitoring" :> "true")]

HyperShiftNamespace_Build(o) ==
    LET namespace == [Kind |-> "Namespace", APIVersion |-> CoreV1,
                      Name |-> o.Name, Labels |-> NoLabels]
    IN  IF o.EnableOCPClusterMonitoring
        THEN [namespace EXCEPT
                !.Labels = ("openshift.io/cluster-monitoring" :> "true")]
        ELSE namespace

\* Faulty variant: a nil Namespace is read as a Namespace without a name.
HyperShiftOperatorCredentialsSecret_Build_NilTolerant(o) ==
    [Kind |-> "Secret", APIVersion |-> CoreV1, Name |-> awsCredsSecretName,
     Namespace |-> IF o.Namespace = Nil THEN "" ELSE o.Namespace.Name,
     Data |-> (awsCredsSecretKey :> o.CredsBytes)]

HyperShiftOperatorCredentialsSecret_Build(o) ==
    IF o.Namespace = Nil THEN Panic
    ELSE [Kind |-> "Secret", APIVersion |-> CoreV1,
          Name |-> awsCredsSecretName, Namespace |-> o.Namespace.Name,
          Data |-> (awsCredsSecretKey :> o.CredsBytes)]

HyperShiftOperatorOIDCProviderS3Secret_Build(o) ==
    IF o.Namespace = Nil THEN Panic
    ELSE [Kind |-> "Secret", APIVersion |-> CoreV1,
          Name |-> oidcProviderS3CredsSecretName,
          Namespace |-> o.Namespace.Name,
          Data |-> (o.CredsKey :> o.OIDCStorageProviderS3CredBytes)]

ExternalDNSCredsSecret_Build(o) ==
    IF o.Namespace = Nil THEN Panic
    ELSE [Kind |-> "Secret", APIVersion |-> CoreV1,
          Name |-> externaDNSCredsSecretName, Namespace |-> o.Namespace.Name,
          Data |-> ("credentials" :> o.CredsBytes)]

(***************************************************************************)
(* Deployments.                                                            *)
(***************************************************************************)
\* corev1.EnvVar with a literal value, and one taken from a field reference.
EnvVar(name, value) == [Name |-> name, Value |-> value, FieldPath |-> ""]
EnvVarFieldRef(name, path) == [Name |-> name, Value |-> "", FieldPath |-> path]

\* corev1.VolumeMount, and corev1.Volume backed by a Secret or projected from
\* a service-account token.
VolumeMount(name, path) == [Name |-> name, MountPath |-> path]
SecretVolume(name, secretName) ==
    [Name |-> name, Secret |-> [SecretName |-> secretName], Projected |-> Nil]
TokenVolume(name, audience, path) ==
    [Name |-> name, Secret |-> Nil,
     Projected |-> [Sources |-> <<[ServiceAccountToken |->
                                    [Audience |-> audience, Path |-> path]]>>]]

\* corev1.Probe with an HTTP GET handler.
HTTPProbe(path, port, delay, period, success, failure, timeout) ==
    [Path |-> path, Port |-> port, Scheme |-> "HTTP",
     InitialDelaySeconds |-> delay, PeriodSeconds |-> period,
     SuccessThreshold |-> success, FailureThreshold |-> failure,
     TimeoutSeconds |-> timeout]

\* Faulty variant: the provider is compared without regard to case.
ExternalDNSDeployment_Platform_AnyCase(o, deployment) ==
    IF o.Provider \in {"aws", "AWS"}
    THEN [deployment EXCEPT
            !.Containers[1].Env = @ \o
                <<EnvVar("AWS_SHARED_CREDENTIALS_FILE", "/etc/provider/credentials"),
                  EnvVar("AWS_REGION", "us-east-1")>>,
            !.Containers[1].Args = Append(@, "--aws-zone-type=public")]
    ELSE deployment

\* The platform specific settings that the switch on o.Provider adds.
ExternalDNSDeployment_Platform(o, deployment) ==
    IF o.Provider = "aws"
    THEN [deployment EXCEPT
            !.Containers[1].Env = @ \o
                <<EnvVar("AWS_SHARED_CREDENTIALS_FILE", "/etc/provider/credentials"),
                  EnvVar("AWS_REGION", "us-east-1")>>,
            !.Containers[1].Args = Append(@, "--aws-zone-type=public")]
    ELSE deployment

\* Faulty variant: the volume names the Secret of ExternalDNSCredsSecret, not the
\* configured one.
ExternalDNSDeployment_Volumes_FixedSecret(o) ==
    <<SecretVolume("credentials", externaDNSCredsSecretName)>>

\* The pod's volumes.
ExternalDNSDeployment_Volumes(o) ==
    <<SecretVolume("credentials", o.CredentialsSecret.Name)>>

ExternalDNSDeployment_Build(o) ==
    IF o.Namespace = Nil \/ o.ServiceAccount = Nil \/ o.CredentialsSecret = Nil
    THEN Panic
    ELSE LET replicas == 1
             deployment ==
               [Kind |-> "Deployment", APIVersion |-> AppsV1,
                Name |-> "external-dns", Namespace |-> o.Namespace.Name,
                Selector |-> ("name" :> "external-dns"),
                Replicas |-> replicas,
                TemplateLabels |-> ("name" :> "external-dns"
                                    @@ "app" :> "external-dns"
                                    @@ OperatorComponent :> "external-dns"),
                ServiceAccountName |-> o.ServiceAccount.Name,
                Containers |-> <<
                  [Name |-> "external-dns",
                   SecurityContext |-> Nil,
                   Image |-> o.Image,
                   ImagePullPolicy |-> "IfNotPresent",
                   Env |-> << >>,
                   Command |-> <<"/external-dns">>,
                   Args |-> <<"--source=service",
                              "--source=openshift-route",
                              "--domain-filter=" \o o.DomainFilter,
                              "--provider=" \o o.Provider,
                              "--registry=noop",
                              "--txt-owner-id=hypershift">>,
                   Ports |-> <<[Name |-> "metrics", ContainerPort |-> 7979,
                                Protocol |-> ""]>>,
                   LivenessProbe |-> HTTPProbe("/healthz", 7979, 60, 60, 1, 5, 5),
                   ReadinessProbe |-> Nil,
                   Requests |-> ("memory" :> "20Mi" @@ "cpu" :> "5m"),
                   VolumeMounts |-> <<VolumeMount("credentials", "/etc/provider")>>
                  ]>>,
                Volumes |-> ExternalDNSDeployment_Volumes(o)]
         IN  ExternalDNSDeployment_Platform(o, deployment)

\* Faulty variant: the secret key is not looked at.
HyperShiftOperatorDeployment_OIDC_NoKeyCheck(o) ==
    /\ Len(o.OIDCBucketName) > 0
    /\ Len(o.OIDCBucketRegion) > 0
    /\ o.OIDCStorageProviderS3Secret # Nil
    /\ Len(o.OIDCStorageProviderS3Secret.Name) > 0

\* The condition under which the OIDC S3 storage provider is wired in.
HyperShiftOperatorDeployment_OIDC(o) ==
    /\ Len(o.OIDCBucketName) > 0
    /\ Len(o.OIDCBucketRegion) > 0
    /\ Len(o.OIDCStorageProviderS3SecretKey) > 0
    /\ o.OIDCStorageProviderS3Secret # Nil
    /\ Len(o.OIDCStorageProviderS3Secret.Name) > 0

HyperShiftOperatorDeployment_Args(o) ==
    LET args == <<"run",
                  "--namespace=$(MY_NAMESPACE)",
                  "--deployment-name=operator",
                  "--metrics-addr=:9000",
                  "--enable-ocp-cluster-monitoring=" \o FmtBool(o.EnableOCPClusterMonitoring),
                  "--enable-ci-debug-output=" \o FmtBool(o.EnableCIDebugOutput),
                  "--private-platform=" \o o.PrivatePlatform>>
    IN  IF HyperShiftOperatorDeployment_OIDC(o)
        THEN args \o
             <<"--oidc-storage-provider-s3-bucket-name=" \o o.OIDCBucketName,
               "--oidc-storage-provider-s3-region=" \o o.OIDCBucketRegion,
               "--oidc-storage-provider-s3-credentials=/etc/oidc-storage-provider-s3-creds/"
                   \o o.OIDCStorageProviderS3SecretKey>>
        ELSE args

HyperShiftOperatorDeployment_oidcVolumeMount(o) ==
    IF HyperShiftOperatorDeployment_OIDC(o)
    THEN <<VolumeMount("oidc-storage-provider-s3-creds",
                       "/etc/oidc-storage-provider-s3-creds")>>
    ELSE << >>

HyperShiftOperatorDeployment_oidcVolumeCred(o) ==
    IF HyperShiftOperatorDeployment_OIDC(o)
    THEN <<SecretVolume("oidc-storage-provider-s3-creds",
                        o.OIDCStorageProviderS3Secret.Name)>>
    ELSE << >>

\* The Deployment as the composite literal builds it, before the private
\* platform is looked at.
HyperShiftOperatorDeployment_Base(o) ==
    [Kind |-> "Deployment", APIVersion |-> AppsV1,
     Name |-> "operator", Namespace |-> o.Namespace.Name,
     Replicas |-> o.Replicas,
     Selector |-> ("name" :> "operator"),
     TemplateLabels |-> ("name" :> "operator"
                         @@ OperatorComponent :> "operator"
                         @@ "app" :> "operator"),
     ServiceAccountName |-> o.ServiceAccount.Name,
     Containers |-> <<
       [Name |-> "operator",
        SecurityContext |-> [RunAsUser |-> 1000],
        Image |-> o.OperatorImage,
        ImagePullPolicy |-> "Always",
        Env |-> <<EnvVarFieldRef("MY_NAMESPACE", "metadata.namespace")>>,
        Command |-> <<"/usr/bin/hypershift-operator">>,
        Args |-> HyperShiftOperatorDeployment_Args(o),
        LivenessProbe |-> HTTPProbe("/metrics", 9000, 60, 60, 1, 5, 5),
        ReadinessProbe |-> HTTPProbe("/metrics", 9000, 15, 60, 1, 3, 5),
        Ports |-> <<[Name |-> "metrics", ContainerPort |-> 9000,
                     Protocol |-> "TCP"]>>,
        Requests |-> ("memory" :> "150Mi" @@ "cpu" :> "10m"),
        VolumeMounts |-> HyperShiftOperatorDeployment_oidcVolumeMount(o)
       ]>>,
     Volumes |-> HyperShiftOperatorDeployment_oidcVolumeCred(o)]

\* Faulty variant: the credentials volume is added without its mount.
HyperShiftOperatorDeployment_Credentials_NoMount(deployment) ==
    [deployment EXCEPT
       !.Volumes = Append(@, SecretVolume("credentials", awsCredsSecretName))]

\* The generic provider credentials secret volume and its mount.
HyperShiftOperatorDeployment_Credentials(deployment) ==
    [deployment EXCEPT
       !.Volumes = Append(@, SecretVolume("credentials", awsCredsSecretName)),
       !.Containers[1].VolumeMounts =
           Append(@, VolumeMount("credentials", "/etc/provider"))]

\* Faulty variant: the region is the fixed one of the external-dns Deployment.
HyperShiftOperatorDeployment_AWS_FixedRegion(o, deployment) ==
    [deployment EXCEPT
       !.Containers[1].Env = @ \o
           <<EnvVar("AWS_SHARED_CREDENTIALS_FILE", "/etc/provider/credentials"),
             EnvVar("AWS_REGION", "us-east-1")>>,
       !.Containers[1].VolumeMounts =
           Append(@, VolumeMount("token", "/var/run/secrets/openshift/serviceaccount")),
       !.Volumes = Append(@, TokenVolume("token", "openshift", "token"))]

\* The platform specific settings of the AWS platform.
HyperShiftOperatorDeployment_AWS(o, deployment) ==
    [deployment EXCEPT
       !.Containers[1].Env = @ \o
           <<EnvVar("AWS_SHARED_CREDENTIALS_FILE", "/etc/provider/credentials"),
             EnvVar("AWS_REGION", o.AWSPrivateRegion)>>,
       !.Containers[1].VolumeMounts =
           Append(@, VolumeMount("token", "/var/run/secrets/openshift/serviceaccount")),
       !.Volumes = Append(@, TokenVolume("token", "openshift", "token"))]

\* Faulty variant: the None platform does not return early.
HyperShiftOperatorDeployment_Build_NoEarlyReturn(o) ==
    IF o.Namespace = Nil \/ o.ServiceAccount = Nil
    THEN Panic
    ELSE LET deployment == HyperShiftOperatorDeployment_Base(o)
         IN  IF o.PrivatePlatform = AWSPlatform
             THEN HyperShiftOperatorDeployment_AWS(o,
                      HyperShiftOperatorDeployment_Credentials(deployment))
             ELSE HyperShiftOperatorDeployment_Credentials(deployment)

HyperShiftOperatorDeployment_Build(o) ==
    IF o.Namespace = Nil \/ o.ServiceAccount = Nil
    THEN Panic
    ELSE LET deployment == HyperShiftOperatorDeployment_Base(o)
             privatePlatformType == o.PrivatePlatform
         IN  IF privatePlatformType = NonePlatform
             THEN deployment
             ELSE IF privatePlatformType = AWSPlatform
                  THEN HyperShiftOperatorDeployment_AWS(o,
                           HyperShiftOperatorDeployment_Credentials(deployment))
                  ELSE HyperShiftOperatorDeployment_Credentials(deployment)

\* Faulty variant: the Service selects pods by a label value that the operator
\* pod template does not carry.
HyperShiftOperatorService_Build_OtherSelector(o) ==
    IF o.Namespace = Nil THEN Panic
    ELSE [Kind |-> "Service", APIVersion |-> CoreV1,
          Namespace |-> o.Namespace.Name, Name |-> "operator",
          Labels |-> ("name" :> "operator"),
          Type |-> "ClusterIP",
          Selector |-> ("name" :> "hypershift-operator"),
          Ports |-> <<[Name |-> "metrics", Protocol |-> "TCP", Port |-> 9393,
                       TargetPort |-> "metrics"]>>]

HyperShiftOperatorService_Build(o) ==
    IF o.Namespace = Nil THEN Panic
    ELSE [Kind |-> "Service", APIVersion |-> CoreV1,
          Namespace |-> o.Namespace.Name, Name |-> "operator",
          Labels |-> ("name" :> "operator"),
          Type |-> "ClusterIP",
          Selector |-> ("name" :> "operator"),
          Ports |-> <<[Name |-> "metrics", Protocol |-> "TCP", Port |-> 9393,
                       TargetPort |-> "metrics"]>>]

(***************************************************************************)
(* Service accounts, roles and bindings.                                   *)
(***************************************************************************)
\* rbacv1.PolicyRule
Rule(groups, resources, verbs) ==
    [APIGroups |-> groups, Resources |-> resources, Verbs |-> verbs]

ReadVerbs == <<"get", "list", "watch">>

\* rbacv1.Subject of kind ServiceAccount, and of kind Group.
ServiceAccountSubject(name, namespace) ==
    [Kind |-> "ServiceAccount", APIGroup |-> "", Name |-> name,
     Namespace |-> namespace]
GroupSubject(name) ==
    [Kind |-> "Group", APIGroup |-> "rbac.authorization.k8s.io", Name |-> name,
     Namespace |-> ""]

\* rbacv1.RoleRef
RoleRef(kind, name) ==
    [APIGroup |-> "rbac.authorization.k8s.io", Kind |-> kind, Name |-> name]

ExternalDNSServiceAccount_Build(o) ==
    IF o.Namespace = Nil THEN Panic
    ELSE [Kind |-> "ServiceAccount", APIVersion |-> CoreV1,
          Namespace |-> o.Namespace.Name, Name |-> "external-dns"]

ExternalDNSClusterRole_Build(o) ==
    [Kind |-> "ClusterRole", APIVersion |-> RbacV1, Name |-> "external-dns",
     Rules |-> <<
        Rule(<<"route.openshift.io">>, <<"*">>, ReadVerbs),
        Rule(<<"">>, <<"endpoints", "services", "nodes", "pods">>, ReadVerbs)>>]

ExternalDNSClusterRoleBinding_Build(o) ==
    IF o.ClusterRole = Nil \/ o.ServiceAccount = Nil THEN Panic
    ELSE [Kind |-> "ClusterRoleBinding", APIVersion |-> RbacV1,
          Name |-> "external-dns",
          RoleRef |-> RoleRef("ClusterRole", o.ClusterRole.Name),
          Subjects |-> <<ServiceAccountSubject(o.ServiceAccount.Name,
                                               o.ServiceAccount.Namespace)>>]

HyperShiftOperatorServiceAccount_Build(o) ==
    IF o.Namespace = Nil THEN Panic
    ELSE [Kind |-> "ServiceAccount", APIVersion |-> CoreV1,
          Namespace |-> o.Namespace.Name, Name |-> "operator"]

HyperShiftOperatorClusterRole_Build(o) ==
    [Kind |-> "ClusterRole", APIVersion |-> RbacV1,
     Name |-> "hypershift-operator",
     Rules |-> <<
        Rule(<<"hypershift.openshift.io">>, <<"*">>, <<"*">>),
        Rule(<<"config.openshift.io">>, <<"*">>, ReadVerbs),
        Rule(<<"apiextensions.k8s.io">>, <<"customresourcedefinitions">>, <<"*">>),
        Rule(<<"batch">>, <<"cronjobs", "jobs">>, <<"*">>),
        Rule(<<"coordination.k8s.io">>, <<"leases">>, <<"*">>),
        Rule(<<"networking.k8s.io">>, <<"networkpolicies">>, <<"*">>),
        Rule(<<"bootstrap.cluster.x-k8s.io",
               "controlplane.cluster.x-k8s.io",
               "infrastructure.cluster.x-k8s.io",
               "machines.cluster.x-k8s.io",
               "exp.infrastructure.cluster.x-k8s.io",
               "addons.cluster.x-k8s.io",
               "exp.cluster.x-k8s.io",
               "cluster.x-k8s.io",
               "monitoring.coreos.com">>, <<"*">>, <<"*">>),
        Rule(<<"policy">>, <<"poddisruptionbudgets">>, <<"*">>),
        Rule(<<"operator.openshift.io">>, <<"*">>, <<"*">>),
        Rule(<<"route.openshift.io">>, <<"*">>, <<"*">>),
        Rule(<<"security.openshift.io">>, <<"securitycontextconstraints">>, <<"*">>),
        Rule(<<"rbac.authorization.k8s.io">>, <<"*">>,
             <<"get", "list", "watch", "create", "update", "patch", "delete">>),
        Rule(<<"">>,
             <<"events", "configmaps", "pods", "pods/log", "secrets", "nodes",
               "namespaces", "serviceaccounts", "services", "endpoints">>,
             <<"*">>),
        Rule(<<"apps">>, <<"deployments", "statefulsets">>, <<"*">>),
        Rule(<<"etcd.database.coreos.com">>, <<"*">>, <<"*">>),
        Rule(<<"machine.openshift.io">>, <<"*">>, <<"*">>),
        Rule(<<"monitoring.coreos.com">>, <<"podmonitors">>,
             <<"get", "list", "watch", "create", "update">>),
        Rule(<<"capi-provider.agent-install.openshift.io">>, <<"*">>, <<"*">>),
        Rule(<<"operator.openshift.io">>, <<"ingresscontrollers">>, <<"*">>),
        Rule(<<"kubevirt.io">>, <<"virtualmachineinstances", "virtualmachines">>,
             <<"*">>),
        Rule(<<"agent-install.openshift.io">>, <<"agents">>, <<"*">>)>>]

HyperShiftOperatorClusterRoleBinding_Build(o) ==
    IF o.ClusterRole = Nil \/ o.ServiceAccount = Nil THEN Panic
    ELSE [Kind |-> "ClusterRoleBinding", APIVersion |-> RbacV1,
          Name |-> "hypershift-operator",
          RoleRef |-> RoleRef("ClusterRole", o.ClusterRole.Name),
          Subjects |-> <<ServiceAccountSubject(o.ServiceAccount.Name,
                                               o.ServiceAccount.Namespace)>>]

HyperShiftOperatorRole_Build(o) ==
    IF o.Namespace = Nil THEN Panic
    ELSE [Kind |-> "Role", APIVersion |-> RbacV1,
          Namespace |-> o.Namespace.Name, Name |-> "hypershift-operator",
          Rules |-> <<Rule(<<"coordination.k8s.io">>, <<"leases">>, <<"*">>)>>]

\* Faulty variant: the RoleRef has the Kind of the cluster-wide bindings.
HyperShiftOperatorRoleBinding_Build_ClusterRoleKind(o) ==
    IF o.ServiceAccount = Nil \/ o.Role = Nil THEN Panic
    ELSE [Kind |-> "RoleBinding", APIVersion |-> RbacV1,
          Namespace |-> o.ServiceAccount.Namespace,
          Name |-> "hypershift-operator",
          RoleRef |-> RoleRef("ClusterRole", o.Role.Name),
          Subjects |-> <<ServiceAccountSubject(o.ServiceAccount.Name,
                                               o.ServiceAccount.Namespace)>>]

HyperShiftOperatorRoleBinding_Build(o) ==
    IF o.ServiceAccount = Nil \/ o.Role = Nil THEN Panic
    ELSE [Kind |-> "RoleBinding", APIVersion |-> RbacV1,
          Namespace |-> o.ServiceAccount.Namespace,
          Name |-> "hypershift-operator",
          RoleRef |-> RoleRef("Role", o.Role.Name),
          Subjects |-> <<ServiceAccountSubject(o.ServiceAccount.Name,
                                               o.ServiceAccount.Namespace)>>]

(***************************************************************************)
(* Priority classes.                                                       *)
(***************************************************************************)
PriorityClass(name, value, description) ==
    [Kind |-> "PriorityClass", APIVersion |-> SchedulingV1, Name |-> name,
     Value |-> value, GlobalDefault |-> FALSE, Description |-> description]

HyperShiftControlPlanePriorityClass_Build(o) ==
    PriorityClass(DefaultPriorityClass, 100000000,
        "This priority class should be used for hypershift control plane pods not critical to serving the API.")

\* Faulty variant: the API-critical class is given the value of the control
\* plane class.
HyperShiftAPICriticalPriorityClass_Build_ControlPlaneValue(o) ==
    PriorityClass(APICriticalPriorityClass, 100000000,
        "This priority class should be used for hypershift control plane pods critical to serving the API.")

HyperShiftAPICriticalPriorityClass_Build(o) ==
    PriorityClass(APICriticalPriorityClass, 100001000,
        "This priority class should be used for hypershift control plane pods critical to serving the API.")

HyperShiftEtcdPriorityClass_Build(o) ==
    PriorityClass(EtcdPriorityClass, 100002000,
        "This priority class should be used for hypershift etcd pods.")

(***************************************************************************)
(* Monitoring.                                                             *)
(***************************************************************************)
HyperShiftPrometheusRole_Build(o) ==
    IF o.Namespace = Nil THEN Panic
    ELSE [Kind |-> "Role", APIVersion |-> RbacV1,
          Namespace |-> o.Namespace.Name, Name |-> "prometheus",
          Rules |-> <<Rule(<<"">>, <<"services", "endpoints", "pods">>,
                           ReadVerbs)>>]

\* Faulty variant: the two prometheus service accounts are taken the wrong way
\* round.
HyperShiftOperatorPrometheusRoleBinding_Build_Swapped(o) ==
    LET subject == IF o.EnableOCPClusterMonitoring
                   THEN ServiceAccountSubject("prometheus-user-workload",
                                              "openshift-user-workload-monitoring")
                   ELSE ServiceAccountSubject("prometheus-k8s",
                                              "openshift-monitoring")
    IN  IF o.Namespace = Nil \/ o.Role = Nil THEN Panic
        ELSE [Kind |-> "RoleBinding", APIVersion |-> RbacV1,
              Namespace |-> o.Namespace.Name, Name |-> "prometheus",
              RoleRef |-> RoleRef("Role", o.Role.Name),
              Subjects |-> <<subject>>]

HyperShiftOperatorPrometheusRoleBinding_Build(o) ==
    LET subject == IF o.EnableOCPClusterMonitoring
                   THEN ServiceAccountSubject("prometheus-k8s",
                                              "openshift-monitoring")
                   ELSE ServiceAccountSubject("prometheus-user-workload",
                                              "openshift-user-workload-monitoring")
    IN  IF o.Namespace = Nil \/ o.Role = Nil THEN Panic
        ELSE [Kind |-> "RoleBinding", APIVersion |-> RbacV1,
              Namespace |-> o.Namespace.Name, Name |-> "prometheus",
              RoleRef |-> RoleRef("Role", o.Role.Name),
              Subjects |-> <<subject>>]

HyperShiftServiceMonitor_Build(o) ==
    IF o.Namespace = Nil THEN Panic
    ELSE [Kind |-> "ServiceMonitor", APIVersion |-> MonitoringV1,
          Namespace |-> o.Namespace.Name, Name |-> "operator",
          JobLabel |-> "component",
          Selector |-> ("name" :> "operator"),
          Endpoints |-> <<[Interval |-> "30s", Port |-> "metrics"]>>]

\* recordingRuleSpec() is defined in another file of the package: the rule
\* groups it returns are kept opaque here.
recordingRuleSpec == [Groups |-> "recordingRuleSpec()"]

HypershiftRecordingRule_Build(r) ==
    IF r.Namespace = Nil THEN Panic
    ELSE [Kind |-> "PrometheusRule", APIVersion |-> MonitoringV1,
          Namespace |-> r.Namespace.Name, Name |-> "metrics",
          Spec |-> recordingRuleSpec]

(***************************************************************************)
(* Client and reader access.                                               *)
(***************************************************************************)
HyperShiftClientClusterRole_Build(o) ==
    [Kind |-> "ClusterRole", APIVersion |-> RbacV1, Name |-> "hypershift-client",
     Rules |-> <<Rule(<<"hypershift.openshift.io">>,
                      <<"hostedclusters", "nodepools">>, <<"*">>)>>]

HyperShiftClientServiceAccount_Build(o) ==
    IF o.Namespace = Nil THEN Panic
    ELSE [Kind |-> "ServiceAccount", APIVersion |-> CoreV1,
          Namespace |-> o.Namespace.Name, Name |-> "hypershift-client"]

HyperShiftClientClusterRoleBinding_Build(o) ==
    IF o.ClusterRole = Nil \/ o.ServiceAccount = Nil THEN Panic
    ELSE [Kind |-> "ClusterRoleBinding", APIVersion |-> RbacV1,
          Name |-> "hypershift-client",
          RoleRef |-> RoleRef("ClusterRole", o.ClusterRole.Name),
          Subjects |-> <<ServiceAccountSubject(o.ServiceAccount.Name,
                                               o.ServiceAccount.Namespace),
                         GroupSubject(o.GroupName)>>]

\* Faulty variant: the readers are given the rules of the operator.
HyperShiftReaderClusterRole_Build_OperatorRules(o) ==
    [Kind |-> "ClusterRole", APIVersion |-> RbacV1,
     Name |-> "hypershift-readers",
     Rules |-> HyperShiftOperatorClusterRole_Build(o).Rules]

HyperShiftReaderClusterRole_Build(o) ==
    [Kind |-> "ClusterRole", APIVersion |-> RbacV1,
     Name |-> "hypershift-readers",
     Rules |-> <<
        Rule(<<"hypershift.openshift.io">>, <<"*">>, ReadVerbs),
        Rule(<<"config.openshift.io">>, <<"*">>, ReadVerbs),
        Rule(<<"apiextensions.k8s.io">>, <<"customresourcedefinitions">>, ReadVerbs),
        Rule(<<"networking.k8s.io">>, <<"networkpolicies">>, ReadVerbs),
        Rule(<<"bootstrap.cluster.x-k8s.io",
               "controlplane.cluster.x-k8s.io",
               "infrastructure.cluster.x-k8s.io",
               "machines.cluster.x-k8s.io",
               "exp.infrastructure.cluster.x-k8s.io",
               "addons.cluster.x-k8s.io",
               "exp.cluster.x-k8s.io",
               "cluster.x-k8s.io">>, <<"*">>, ReadVerbs),
        Rule(<<"operator.openshift.io">>, <<"*">>, ReadVerbs),
        Rule(<<"route.openshift.io">>, <<"*">>, ReadVerbs),
        Rule(<<"security.openshift.io">>, <<"securitycontextconstraints">>, ReadVerbs),
        Rule(<<"rbac.authorization.k8s.io">>, <<"*">>, ReadVerbs),
        Rule(<<"">>,
             <<"events", "configmaps", "pods", "pods/log", "nodes",
               "namespaces", "serviceaccounts", "services">>, ReadVerbs),
        Rule(<<"apps">>, <<"deployments">>, ReadVerbs),
        Rule(<<"etcd.database.coreos.com">>, <<"*">>, ReadVerbs),
        Rule(<<"machine.openshift.io">>, <<"*">>, ReadVerbs),
        Rule(<<"monitoring.coreos.com">>, <<"podmonitors">>, ReadVerbs),
        Rule(<<"capi-provider.agent-install.openshift.io">>, <<"*">>, ReadVerbs)>>]

HyperShiftReaderClusterRoleBinding_Build(o) ==
    IF o.ClusterRole = Nil THEN Panic
    ELSE [Kind |-> "ClusterRoleBinding", APIVersion |-> RbacV1,
          Name |-> "hypershift-readers",
          RoleRef |-> RoleRef("ClusterRole", o.ClusterRole.Name),
          Subjects |-> <<GroupSubject(o.GroupName)>>]

(***************************************************************************)
(* The configurations a caller can hand to the builders.                   *)
(***************************************************************************)
NameStrings == {"", "hypershift"}
CredsBytesValues == {<< >>, <<65, 75>>}
KeyStrings == {"", "credentials"}
GroupNames == {"", "hypershift-admins"}
PlatformStrings == {NonePlatform, AWSPlatform, "", "aws"}
RegionStrings == {"", "us-west-2"}
BucketStrings == {"", "oidc-bucket"}
ProviderStrings == {"aws", "AWS", ""}
DomainStrings == {"", "example.com"}
ImageStrings == {"quay.io/hypershift/image:latest"}

\* A builder value of the given Go type with the given fields.
Typed(type, fields) == {("type" :> type) @@ f : f \in fields}

HyperShiftNamespaces ==
    Typed("HyperShiftNamespace",
          [Name : NameStrings, EnableOCPClusterMonitoring : BOOLEAN])

\* *corev1.Namespace: nil, or what HyperShiftNamespace.Build returns.
NamespacePtrs ==
    {Nil} \cup {HyperShiftNamespace_Build(o) : o \in HyperShiftNamespaces}

\* The namespaces the objects referenced by other builders were made in.
HomeNamespacePtrs ==
    {HyperShiftNamespace_Build([Name |-> n, EnableOCPClusterMonitoring |-> FALSE])
        : n \in NameStrings}

\* *corev1.ServiceAccount: nil, or what a service account builder returns.
ServiceAccountPtrs ==
    {Nil}
    \cup {HyperShiftOperatorServiceAccount_Build([Namespace |-> n]) : n \in HomeNamespacePtrs}
    \cup {ExternalDNSServiceAccount_Build([Namespace |-> n]) : n \in HomeNamespacePtrs}
    \cup {HyperShiftClientServiceAccount_Build([Namespace |-> n]) : n \in HomeNamespacePtrs}

\* *corev1.Secret: nil, a zero Secret, or what a secret builder returns.
ZeroSecret ==
    [Kind |-> "", APIVersion |-> "", Name |-> "", Namespace |-> "",
     Data |-> << >>]
SecretPtrs ==
    {Nil, ZeroSecret}
    \cup {HyperShiftOperatorOIDCProviderS3Secret_Build(
             [Namespace |-> n, OIDCStorageProviderS3CredBytes |-> <<65, 75>>,
              CredsKey |-> "credentials"]) : n \in HomeNamespacePtrs}
    \cup {ExternalDNSCredsSecret_Build([Namespace |-> n, CredsBytes |-> <<65, 75>>])
             : n \in HomeNamespacePtrs}

\* *rbacv1.ClusterRole and *rbacv1.Role: nil, or what a role builder returns.
ClusterRolePtrs ==
    {Nil, ExternalDNSClusterRole_Build(Nil), HyperShiftOperatorClusterRole_Build(Nil),
     HyperShiftClientClusterRole_Build(Nil), HyperShiftReaderClusterRole_Build(Nil)}
RolePtrs ==
    {Nil}
    \cup {HyperShiftOperatorRole_Build([Namespace |-> n]) : n \in HomeNamespacePtrs}
    \cup {HyperShiftPrometheusRole_Build([Namespace |-> n]) : n \in HomeNamespacePtrs}

\* The builder types whose only field is the Namespace.
NamespaceOnlyTypes ==
    {"HyperShiftOperatorService", "ExternalDNSServiceAccount",
     "HyperShiftOperatorServiceAccount", "HyperShiftOperatorRole",
     "HyperShiftPrometheusRole", "HyperShiftServiceMonitor",
     "HypershiftRecordingRule", "HyperShiftClientServiceAccount"}

\* The builder types without fields.
EmptyTypes ==
    {"ExternalDNSClusterRole", "HyperShiftOperatorClusterRole",
     "HyperShiftControlPlanePriorityClass", "HyperShiftAPICriticalPriorityClass",
     "HyperShiftEtcdPriorityClass", "HyperShiftClientClusterRole",
     "HyperShiftReaderClusterRole"}

\* The builder types that bind a ClusterRole to a ServiceAccount.
ClusterRoleBindingTypes ==
    {"ExternalDNSClusterRoleBinding", "HyperShiftOperatorClusterRoleBinding"}

HyperShiftOperatorDeployments ==
    Typed("HyperShiftOperatorDeployment",
          [Namespace : NamespacePtrs,
           OperatorImage : ImageStrings,
           ServiceAccount : ServiceAccountPtrs,
           Replicas : 0..MaxReplicas,
           EnableOCPClusterMonitoring : BOOLEAN,
           EnableCIDebugOutput : BOOLEAN,
           PrivatePlatform : PlatformStrings,
           AWSPrivateCreds : {"/etc/creds"},
           AWSPrivateRegion : RegionStrings,
           OIDCBucketName : BucketStrings,
           OIDCBucketRegion : RegionStrings,
           OIDCStorageProviderS3Secret : SecretPtrs,
           OIDCStorageProviderS3SecretKey : KeyStrings])

ExternalDNSDeployments ==
    Typed("ExternalDNSDeployment",
          [Namespace : NamespacePtrs,
           Image : ImageStrings,
           ServiceAccount : ServiceAccountPtrs,
           Provider : ProviderStrings,
           DomainFilter : DomainStrings,
           CredentialsSecret : SecretPtrs])

Builders ==
    HyperShiftNamespaces
    \cup Typed("HyperShiftOperatorCredentialsSecret",
               [Namespace : NamespacePtrs, CredsBytes : CredsBytesValues])
    \cup Typed("HyperShiftOperatorOIDCProviderS3Secret",
               [Namespace : NamespacePtrs,
                OIDCStorageProviderS3CredBytes : CredsBytesValues,
                CredsKey : KeyStrings])
    \cup Typed("ExternalDNSCredsSecret",
               [Namespace : NamespacePtrs, CredsBytes : CredsBytesValues])
    \cup ExternalDNSDeployments
    \cup HyperShiftOperatorDeployments
    \cup UNION {Typed(t, [Namespace : NamespacePtrs]) : t \in NamespaceOnlyTypes}
    \cup {("type" :> t) : t \in EmptyTypes}
    \cup UNION {Typed(t, [ClusterRole : ClusterRolePtrs,
                          ServiceAccount : ServiceAccountPtrs])
                  : t \in ClusterRoleBindingTypes}
    \cup Typed("HyperShiftOperatorRoleBinding",
               [Role : RolePtrs, ServiceAccount : ServiceAccountPtrs])
    \cup Typed("HyperShiftOperatorPrometheusRoleBinding",
               [Namespace : NamespacePtrs, Role : RolePtrs,
                EnableOCPClusterMonitoring : BOOLEAN])
    \cup Typed("HyperShiftClientClusterRoleBinding",
               [ClusterRole : ClusterRolePtrs,
                ServiceAccount : ServiceAccountPtrs, GroupName : GroupNames])
    \cup Typed("HyperShiftReaderClusterRoleBinding",
               [ClusterRole : ClusterRolePtrs, GroupName : GroupNames])

(***************************************************************************)
(* Spec: a caller holds one builder and calls its Build method.            *)
(***************************************************************************)
memVars == <<heap, objs, snap, written>>

Init ==
    /\ builder \in Builders
    /\ result = NotBuilt
    /\ heap = << >>
    /\ objs = << >>
    /\ snap = << >>
    /\ written = {}

\* The pending call of Build returns res to the caller.
Return(res) ==
    /\ result = NotBuilt
    /\ result' = res
    /\ UNCHANGED <<builder, memVars>>

BuildHyperShiftNamespace ==
    /\ builder.type = "HyperShiftNamespace"
    /\ Return(HyperShiftNamespace_Build(builder))
BuildHyperShiftOperatorCredentialsSecret ==
    /\ builder.type = "HyperShiftOperatorCredentialsSecret"
    /\ Return(HyperShiftOperatorCredentialsSecret_Build(builder))
BuildHyperShiftOperatorOIDCProviderS3Secret ==
    /\ builder.type = "HyperShiftOperatorOIDCProviderS3Secret"
    /\ Return(HyperShiftOperatorOIDCProviderS3Secret_Build(builder))
BuildExternalDNSCredsSecret ==
    /\ builder.type = "ExternalDNSCredsSecret"
    /\ Return(ExternalDNSCredsSecret_Build(builder))
BuildExternalDNSDeployment ==
    /\ builder.type = "ExternalDNSDeployment"
    /\ Return(ExternalDNSDeployment_Build(builder))
BuildHyperShiftOperatorDeployment ==
    /\ builder.type = "HyperShiftOperatorDeployment"
    /\ Return(HyperShiftOperatorDeployment_Build(builder))
BuildHyperShiftOperatorService ==
    /\ builder.type = "HyperShiftOperatorService"
    /\ Return(HyperShiftOperatorService_Build(builder))
BuildExternalDNSServiceAccount ==
    /\ builder.type = "ExternalDNSServiceAccount"
    /\ Return(ExternalDNSServiceAccount_Build(builder))
BuildExternalDNSClusterRole ==
    /\ builder.type = "ExternalDNSClusterRole"
    /\ Return(ExternalDNSClusterRole_Build(builder))
BuildExternalDNSClusterRoleBinding ==
    /\ builder.type = "ExternalDNSClusterRoleBinding"
    /\ Return(ExternalDNSClusterRoleBinding_Build(builder))
BuildHyperShiftOperatorServiceAccount ==
    /\ builder.type = "HyperShiftOperatorServiceAccount"
    /\ Return(HyperShiftOperatorServiceAccount_Build(builder))
BuildHyperShiftOperatorClusterRole ==
    /\ builder.type = "HyperShiftOperatorClusterRole"
    /\ Return(HyperShiftOperatorClusterRole_Build(builder))
BuildHyperShiftOperatorClusterRoleBinding ==
    /\ builder.type = "HyperShiftOperatorClusterRoleBinding"
    /\ Return(HyperShiftOperatorClusterRoleBinding_Build(builder))
BuildHyperShiftOperatorRole ==
    /\ builder.type = "HyperShiftOperatorRole"
    /\ Return(HyperShiftOperatorRole_Build(builder))
BuildHyperShiftOperatorRoleBinding ==
    /\ builder.type = "HyperShiftOperatorRoleBinding"
    /\ Return(HyperShiftOperatorRoleBinding_Build(builder))
BuildHyperShiftControlPlanePriorityClass ==
    /\ builder.type = "HyperShiftControlPlanePriorityClass"
    /\ Return(HyperShiftControlPlanePriorityClass_Build(builder))
BuildHyperShiftAPICriticalPriorityClass ==
    /\ builder.type = "HyperShiftAPICriticalPriorityClass"
    /\ Return(HyperShiftAPICriticalPriorityClass_Build(builder))
BuildHyperShiftEtcdPriorityClass ==
    /\ builder.type = "HyperShiftEtcdPriorityClass"
    /\ Return(HyperShiftEtcdPriorityClass_Build(builder))
BuildHyperShiftPrometheusRole ==
    /\ builder.type = "HyperShiftPrometheusRole"
    /\ Return(HyperShiftPrometheusRole_Build(builder))
BuildHyperShiftOperatorPrometheusRoleBinding ==
    /\ builder.type = "HyperShiftOperatorPrometheusRoleBinding"
    /\ Return(HyperShiftOperatorPrometheusRoleBinding_Build(builder))
BuildHyperShiftServiceMonitor ==
    /\ builder.type = "HyperShiftServiceMonitor"
    /\ Return(HyperShiftServiceMonitor_Build(builder))
BuildHypershiftRecordingRule ==
    /\ builder.type = "HypershiftRecordingRule"
    /\ Return(HypershiftRecordingRule_Build(builder))
BuildHyperShiftClientClusterRole ==
    /\ builder.type = "HyperShiftClientClusterRole"
    /\ Return(HyperShiftClientClusterRole_Build(builder))
BuildHyperShiftClientServiceAccount ==
    /\ builder.type = "HyperShiftClientServiceAccount"
    /\ Return(HyperShiftClientServiceAccount_Build(builder))
BuildHyperShiftClientClusterRoleBinding ==
    /\ builder.type = "HyperShiftClientClusterRoleBinding"
    /\ Return(HyperShiftClientClusterRoleBinding_Build(builder))
BuildHyperShiftReaderClusterRole ==
    /\ builder.type = "HyperShiftReaderClusterRole"
    /\ Return(HyperShiftReaderClusterRole_Build(builder))
BuildHyperShiftReaderClusterRoleBinding ==
    /\ builder.type = "HyperShiftReaderClusterRoleBinding"
    /\ Return(HyperShiftReaderClusterRoleBinding_Build(builder))

Next ==
    \/ BuildHyperShiftNamespace
    \/ BuildHyperShiftOperatorCredentialsSecret
    \/ BuildHyperShiftOperatorOIDCProviderS3Secret
    \/ BuildExternalDNSCredsSecret
    \/ BuildExternalDNSDeployment
    \/ BuildHyperShiftOperatorDeployment
    \/ BuildHyperShiftOperatorService
    \/ BuildExternalDNSServiceAccount
    \/ BuildExternalDNSClusterRole
    \/ BuildExternalDNSClusterRoleBinding
    \/ BuildHyperShiftOperatorServiceAccount
    \/ BuildHyperShiftOperatorClusterRole
    \/ BuildHyperShiftOperatorClusterRoleBinding
    \/ BuildHyperShiftOperatorRole
    \/ BuildHyperShiftOperatorRoleBinding
    \/ BuildHyperShiftControlPlanePriorityClass
    \/ BuildHyperShiftAPICriticalPriorityClass
    \/ BuildHyperShiftEtcdPriorityClass
    \/ BuildHyperShiftPrometheusRole
    \/ BuildHyperShiftOperatorPrometheusRoleBinding
    \/ BuildHyperShiftServiceMonitor
    \/ BuildHypershiftRecordingRule
    \/ BuildHyperShiftClientClusterRole
    \/ BuildHyperShiftClientServiceAccount
    \/ BuildHyperShiftClientClusterRoleBinding
    \/ BuildHyperShiftReaderClusterRole
    \/ BuildHyperShiftReaderClusterRoleBinding

Spec == Init /\ [][Next]_vars

(***************************************************************************)
(* Properties of the builders, checked under Spec.                         *)
(***************************************************************************)
\* The call has returned an object (it has neither panicked nor is pending).
Returned == result # NotBuilt /\ result # Panic

\* The call on a builder of the given type has returned an object.
Built(type) == builder.type = type /\ Returned

EnvNamed(c, name) == {i \in 1..Len(c.Env) : c.Env[i].Name = name}
VolumesNamed(d, name) == {i \in 1..Len(d.Volumes) : d.Volumes[i].Name = name}
MountsNamed(c, name) ==
    {i \in 1..Len(c.VolumeMounts) : c.VolumeMounts[i].Name = name}

\* C1: when PrivatePlatform is the AWS platform, the single container of the
\* operator Deployment has an environment variable AWS_REGION, and its value
\* is the configured AWSPrivateRegion (the empty string included).
C1_AWSRegionEnv ==
    (Built("HyperShiftOperatorDeployment") /\ builder.PrivatePlatform = AWSPlatform)
    => /\ Len(result.Containers) = 1
       /\ EnvNamed(result.Containers[1], "AWS_REGION") # {}
       /\ \A i \in EnvNamed(result.Containers[1], "AWS_REGION") :
             result.Containers[1].Env[i].Value = builder.AWSPrivateRegion

C1_Witness ==
    /\ Built("HyperShiftOperatorDeployment")
    /\ builder.PrivatePlatform = AWSPlatform
    /\ builder.AWSPrivateRegion = ""
    /\ EnvNamed(result.Containers[1], "AWS_REGION") # {}

\* C2 as stated: the name of the external-dns container's volume mount is the
\* Name of the configured CredentialsSecret.
C2_Original_MountNameIsSecretName ==
    Built("ExternalDNSDeployment")
    => \A i \in 1..Len(result.Containers[1].VolumeMounts) :
          result.Containers[1].VolumeMounts[i].Name = builder.CredentialsSecret.Name

\* C2 as amended: the external-dns container has one volume mount, named
\* "credentials" like the pod's one volume, and it is that volume's secret
\* name that equals the Name of the configured CredentialsSecret.
C2_VolumeSecretName ==
    Built("ExternalDNSDeployment")
    => /\ Len(result.Containers) = 1
       /\ Len(result.Containers[1].VolumeMounts) = 1
       /\ Len(result.Volumes) = 1
       /\ result.Containers[1].VolumeMounts[1].Name = "credentials"
       /\ result.Volumes[1].Name = result.Containers[1].VolumeMounts[1].Name
       /\ result.Volumes[1].Secret # Nil
       /\ result.Volumes[1].Secret.SecretName = builder.CredentialsSecret.Name

C2_Witness ==
    /\ Built("ExternalDNSDeployment")
    /\ builder.CredentialsSecret =
          ExternalDNSCredsSecret_Build([Namespace |-> builder.Namespace,
                                        CredsBytes |-> <<65, 75>>])
    /\ result.Volumes[1].Secret.SecretName = externaDNSCredsSecretName
    /\ result.Containers[1].VolumeMounts[1].Name # externaDNSCredsSecretName

\* The reference fields that every builder having them dereferences.
DereferencedFields ==
    {"Namespace", "ServiceAccount", "CredentialsSecret", "ClusterRole", "Role"}
UnsetReferences ==
    {f \in DOMAIN builder \cap DereferencedFields : builder[f] = Nil}

\* The Kind of the object each builder type returns.
KindBuilt(type) ==
    CASE type = "HyperShiftNamespace" -> "Namespace"
      [] type \in {"HyperShiftOperatorCredentialsSecret",
                   "HyperShiftOperatorOIDCProviderS3Secret",
                   "ExternalDNSCredsSecret"} -> "Secret"
      [] type \in {"ExternalDNSDeployment", "HyperShiftOperatorDeployment"}
            -> "Deployment"
      [] type = "HyperShiftOperatorService" -> "Service"
      [] type \in {"ExternalDNSServiceAccount", "HyperShiftOperatorServiceAccount",
                   "HyperShiftClientServiceAccount"} -> "ServiceAccount"
      [] type \in {"ExternalDNSClusterRole", "HyperShiftOperatorClusterRole",
                   "HyperShiftClientClusterRole", "HyperShiftReaderClusterRole"}
            -> "ClusterRole"
      [] type \in {"ExternalDNSClusterRoleBinding",
                   "HyperShiftOperatorClusterRoleBinding",
                   "HyperShiftClientClusterRoleBinding",
                   "HyperShiftReaderClusterRoleBinding"} -> "ClusterRoleBinding"
      [] type \in {"HyperShiftOperatorRole", "HyperShiftPrometheusRole"} -> "Role"
      [] type \in {"HyperShiftOperatorRoleBinding",
                   "HyperShiftOperatorPrometheusRoleBinding"} -> "RoleBinding"
      [] type \in {"HyperShiftControlPlanePriorityClass",
                   "HyperShiftAPICriticalPriorityClass",
                   "HyperShiftEtcdPriorityClass"} -> "PriorityClass"
      [] type = "HyperShiftServiceMonitor" -> "ServiceMonitor"
      [] type = "HypershiftRecordingRule" -> "PrometheusRule"

\* C3 as stated: whatever the configuration, unset reference fields included,
\* Build completes and returns an object.
C3_Original_BuildNeverFails ==
    result # NotBuilt => result # Panic

\* C3 as amended: Build completes and returns an object of the builder's kind
\* exactly when none of the reference fields Namespace, ServiceAccount,
\* CredentialsSecret, ClusterRole and Role of the builder is unset; with one
\* of them unset it panics on the nil pointer. An unset
\* OIDCStorageProviderS3Secret never makes Build fail.
C3_BuildFailsOnlyOnUnsetReference ==
    result # NotBuilt
    => /\ (result = Panic) <=> (UnsetReferences # {})
       /\ result # Panic => result.Kind = KindBuilt(builder.type)

C3_Witness ==
    /\ builder.type = "HyperShiftOperatorDeployment"
    /\ UnsetReferences = {}
    /\ builder.OIDCStorageProviderS3Secret = Nil
    /\ Returned
    /\ result.Kind = "Deployment"

\* C4: in the operator Deployment the private platform alone selects the
\* credential wiring: the "credentials" volume (backed by the operator AWS
\* credentials Secret) and its mount at /etc/provider are there if and only
\* if PrivatePlatform is not None; AWS_SHARED_CREDENTIALS_FILE, AWS_REGION
\* and the projected "token" volume and mount if and only if it is AWS.
C4_PlatformSelectsWiring ==
    Built("HyperShiftOperatorDeployment")
    => LET c == result.Containers[1]
           credsVolume ==
               \E i \in VolumesNamed(result, "credentials") :
                   /\ result.Volumes[i].Secret # Nil
                   /\ result.Volumes[i].Secret.SecretName = awsCredsSecretName
           credsMount ==
               \E i \in MountsNamed(c, "credentials") :
                   c.VolumeMounts[i].MountPath = "/etc/provider"
           tokenVolume ==
               \E i \in VolumesNamed(result, "token") :
                   result.Volumes[i].Projected # Nil
           tokenMount == MountsNamed(c, "token") # {}
           awsEnv == /\ EnvNamed(c, "AWS_SHARED_CREDENTIALS_FILE") # {}
                     /\ EnvNamed(c, "AWS_REGION") # {}
       IN  /\ IF builder.PrivatePlatform # NonePlatform
              THEN credsVolume /\ credsMount
              ELSE /\ VolumesNamed(result, "credentials") = {}
                   /\ MountsNamed(c, "credentials") = {}
           /\ IF builder.PrivatePlatform = AWSPlatform
              THEN awsEnv /\ tokenVolume /\ tokenMount
              ELSE /\ EnvNamed(c, "AWS_SHARED_CREDENTIALS_FILE") = {}
                   /\ EnvNamed(c, "AWS_REGION") = {}
                   /\ VolumesNamed(result, "token") = {}
                   /\ MountsNamed(c, "token") = {}

C4_Witness ==
    /\ Built("HyperShiftOperatorDeployment")
    /\ builder.PrivatePlatform \notin {NonePlatform, AWSPlatform}
    /\ VolumesNamed(result, "credentials") # {}
    /\ VolumesNamed(result, "token") = {}

\* The binding builder types that take a ServiceAccount, and the field that
\* holds the role of each binding builder type.
ServiceAccountBindingTypes ==
    {"ExternalDNSClusterRoleBinding", "HyperShiftOperatorClusterRoleBinding",
     "HyperShiftOperatorRoleBinding", "HyperShiftClientClusterRoleBinding"}
ClusterRoleBindingBuilderTypes ==
    {"ExternalDNSClusterRoleBinding", "HyperShiftOperatorClusterRoleBinding",
     "HyperShiftClientClusterRoleBinding", "HyperShiftReaderClusterRoleBinding"}
RoleBindingBuilderTypes ==
    {"HyperShiftOperatorRoleBinding", "HyperShiftOperatorPrometheusRoleBinding"}

\* C7: a binding builder that takes a ServiceAccount returns a binding with a
\* subject of kind ServiceAccount that has the name and namespace of the
\* supplied ServiceAccount, and the RoleRef of every binding builder names the
\* supplied Role or ClusterRole, with that Kind and the API group
\* rbac.authorization.k8s.io.
C7_BindingSubjectAndRoleRef ==
    Returned
    => /\ builder.type \in ServiceAccountBindingTypes
          => \E i \in 1..Len(result.Subjects) :
                /\ result.Subjects[i].Kind = "ServiceAccount"
                /\ result.Subjects[i].Name = builder.ServiceAccount.Name
                /\ result.Subjects[i].Namespace = builder.ServiceAccount.Namespace
       /\ builder.type \in ClusterRoleBindingBuilderTypes
          => /\ result.RoleRef.Kind = "ClusterRole"
             /\ result.RoleRef.Name = builder.ClusterRole.Name
             /\ result.RoleRef.APIGroup = "rbac.authorization.k8s.io"
       /\ builder.type \in RoleBindingBuilderTypes
          => /\ result.RoleRef.Kind = "Role"
             /\ result.RoleRef.Name = builder.Role.Name
             /\ result.RoleRef.APIGroup = "rbac.authorization.k8s.io"

C7_Witness ==
    /\ Built("HyperShiftOperatorRoleBinding")
    /\ builder.ServiceAccount.Namespace = "hypershift"
    /\ builder.Role.Name = "hypershift-operator"
    /\ result.RoleRef.Kind = "Role"
    /\ Len(result.Subjects) = 1

\* C8: the Namespace of HyperShiftNamespace.Build has the configured Name; it
\* carries the label openshift.io/cluster-monitoring="true" if and only if
\* EnableOCPClusterMonitoring is true, and no label at all when it is false.
C8_NamespaceMonitoringLabel ==
    Built("HyperShiftNamespace")
    => /\ result.Kind = "Namespace"
       /\ result.Name = builder.Name
       /\ builder.EnableOCPClusterMonitoring
          <=> /\ "openshift.io/cluster-monitoring" \in DOMAIN result.Labels
              /\ result.Labels["openshift.io/cluster-monitoring"] = "true"
       /\ ~builder.EnableOCPClusterMonitoring => DOMAIN result.Labels = {}

C8_Witness ==
    /\ Built("HyperShiftNamespace")
    /\ ~builder.EnableOCPClusterMonitoring
    /\ builder.Name = "hypershift"
    /\ result.Labels = NoLabels

\* C10: the OIDC S3 wiring of the operator Deployment is all or nothing. With
\* OIDCBucketName, OIDCBucketRegion and OIDCStorageProviderS3SecretKey
\* non-empty and OIDCStorageProviderS3Secret set and named, the three
\* --oidc-storage-provider-s3-* arguments, the volume
\* "oidc-storage-provider-s3-creds" backed by the named Secret and its mount
\* at /etc/oidc-storage-provider-s3-creds are all there; when one of the five
\* conditions fails none of them is. The credentials argument is the mount
\* path, "/" and the configured key.
C10_OIDCAllOrNothing ==
    Built("HyperShiftOperatorDeployment")
    => LET c == result.Containers[1]
           name == "oidc-storage-provider-s3-creds"
           path == "/etc/oidc-storage-provider-s3-creds"
           configured ==
               /\ builder.OIDCBucketName # ""
               /\ builder.OIDCBucketRegion # ""
               /\ builder.OIDCStorageProviderS3SecretKey # ""
               /\ builder.OIDCStorageProviderS3Secret # Nil
               /\ builder.OIDCStorageProviderS3Secret.Name # ""
           oidcArgs ==
               {i \in 1..Len(c.Args) :
                   HasPrefix(c.Args[i], "--oidc-storage-provider-s3-")}
       IN  IF configured
           THEN /\ Cardinality(oidcArgs) = 3
                /\ "--oidc-storage-provider-s3-bucket-name="
                       \o builder.OIDCBucketName \in Range(c.Args)
                /\ "--oidc-storage-provider-s3-region="
                       \o builder.OIDCBucketRegion \in Range(c.Args)
                /\ "--oidc-storage-provider-s3-credentials=" \o path \o "/"
                       \o builder.OIDCStorageProviderS3SecretKey \in Range(c.Args)
                /\ \E i \in VolumesNamed(result, name) :
                      /\ result.Volumes[i].Secret # Nil
                      /\ result.Volumes[i].Secret.SecretName =
                             builder.OIDCStorageProviderS3Secret.Name
                /\ \E i \in MountsNamed(c, name) :
                      c.VolumeMounts[i].MountPath = path
           ELSE /\ oidcArgs = {}
                /\ VolumesNamed(result, name) = {}
                /\ MountsNamed(c, name) = {}
                /\ \A i \in 1..Len(c.VolumeMounts) :
                      c.VolumeMounts[i].MountPath # path

C10_Witness ==
    /\ Built("HyperShiftOperatorDeployment")
    /\ builder.OIDCBucketName # ""
    /\ builder.OIDCBucketRegion # ""
    /\ builder.OIDCStorageProviderS3SecretKey = ""
    /\ builder.OIDCStorageProviderS3Secret # Nil
    /\ builder.OIDCStorageProviderS3Secret.Name = oidcProviderS3CredsSecretName
    /\ Len(result.Containers[1].Args) = 7
    /\ VolumesNamed(result, "oidc-storage-provider-s3-creds") = {}

(***************************************************************************)
(* SpecMem: the builders over a heap.                                      *)
(*                                                                         *)
(* heap is the sequence of the memory cells allocated so far and an        *)
(* address is an index into it (0 is the nil pointer). A struct that holds *)
(* a pointer, a slice or a map value holds the address of the cell with    *)
(* the pointee, the slice's elements or the value. The caller owns the     *)
(* first cells: the objects its builders point to, the Replicas field of   *)
(* its operator Deployment builder and the credential bytes of its secret  *)
(* builders.                                                               *)
(***************************************************************************)
\* The fields of a builder that hold an address.
AddressFields ==
    DereferencedFields
    \cup {"OIDCStorageProviderS3Secret", "Replicas", "CredsBytes",
          "OIDCStorageProviderS3CredBytes"}

\* The builder o as the value Build works on: every address replaced by what
\* the heap h holds there.
Load(o, h) ==
    [f \in DOMAIN o |->
        IF f \in AddressFields
        THEN IF o[f] = 0 THEN Nil ELSE h[o[f]]
        ELSE o[f]]

\* The caller's memory, and its builders.
MemInitHeap ==
    LET namespace == HyperShiftNamespace_Build(
                        [Name |-> "hypershift", EnableOCPClusterMonitoring |-> FALSE])
    IN  << namespace,
           HyperShiftOperatorServiceAccount_Build([Namespace |-> namespace]),
           HyperShiftOperatorOIDCProviderS3Secret_Build(
               [Namespace |-> namespace, CredsKey |-> "credentials",
                OIDCStorageProviderS3CredBytes |-> <<79, 73>>]),
           ExternalDNSCredsSecret_Build(
               [Namespace |-> namespace, CredsBytes |-> <<68, 78>>]),
           MaxReplicas,
           <<65, 75>>,
           <<79, 73>>,
           <<68, 78>> >>

MemBuilders ==
    {[type |-> "Install",
      HyperShiftOperatorDeployment |->
          [type |-> "HyperShiftOperatorDeployment",
           Namespace |-> 1, OperatorImage |-> "quay.io/hypershift/image:latest",
           ServiceAccount |-> 2, Replicas |-> 5,
           EnableOCPClusterMonitoring |-> FALSE, EnableCIDebugOutput |-> FALSE,
           PrivatePlatform |-> p, AWSPrivateCreds |-> "/etc/creds",
           AWSPrivateRegion |-> "us-west-2", OIDCBucketName |-> "oidc-bucket",
           OIDCBucketRegion |-> "us-west-2", OIDCStorageProviderS3Secret |-> s,
           OIDCStorageProviderS3SecretKey |-> "credentials"],
      ExternalDNSDeployment |->
          [type |-> "ExternalDNSDeployment",
           Namespace |-> 1, Image |-> "quay.io/hypershift/image:latest",
           ServiceAccount |-> 2, Provider |-> "aws",
           DomainFilter |-> "example.com", CredentialsSecret |-> 4],
      HyperShiftOperatorCredentialsSecret |->
          [type |-> "HyperShiftOperatorCredentialsSecret",
           Namespace |-> 1, CredsBytes |-> 6],
      HyperShiftOperatorOIDCProviderS3Secret |->
          [type |-> "HyperShiftOperatorOIDCProviderS3Secret",
           Namespace |-> 1, OIDCStorageProviderS3CredBytes |-> 7,
           CredsKey |-> "credentials"],
      ExternalDNSCredsSecret |->
          [type |-> "ExternalDNSCredsSecret", Namespace |-> 1, CredsBytes |-> 8]]
     : p \in {NonePlatform, AWSPlatform}, s \in {0, 3}}

\* The addresses of the caller's memory, and those of the credential bytes.
BuilderAddrs == 1..Len(MemInitHeap)
CredsBytesAddrs ==
    {builder.HyperShiftOperatorCredentialsSecret.CredsBytes,
     builder.HyperShiftOperatorOIDCProviderS3Secret.OIDCStorageProviderS3CredBytes,
     builder.ExternalDNSCredsSecret.CredsBytes}

\* Faulty variant: Build has a pointer receiver, and &o.Replicas is the address of the
\* builder's own field.
ReplicasPointer_PointerReceiver(field, copy) == field

\* &o.Replicas: Build has a value receiver, so o is the call's own copy of the
\* builder and the address is that of the copy's field, not of the builder's.
ReplicasPointer(field, copy) == copy

\* The Deployment d, built for a builder whose Replicas field is at address
\* `field`, laid out on the heap h: the struct, followed by the cells its
\* pointer and slices refer to.
StoreDeployment(h, d, field) ==
    LET n == Len(h)
        c == d.Containers[1]
        struct == [d EXCEPT !.Replicas = ReplicasPointer(field, n + 2),
                            !.Containers[1].Env = n + 3,
                            !.Containers[1].Args = n + 4,
                            !.Volumes = n + 5,
                            !.Containers[1].VolumeMounts = n + 6]
    IN  h \o <<struct, d.Replicas, c.Env, c.Args, d.Volumes, c.VolumeMounts>>

\* The Secret s, built for a builder whose credential bytes are at address
\* `bytes`, laid out on the heap h: Data maps its key to the builder's slice.
StoreSecret(h, s, bytes) ==
    Append(h, [s EXCEPT !.Data = [k \in DOMAIN s.Data |-> bytes]])

\* aws.NewDestroyCommand() and azure.NewDestroyCommand(): each returns a new
\* command of its package.
aws_NewDestroyCommand == [pkg |-> "aws", parent |-> 0]
azure_NewDestroyCommand == [pkg |-> "azure", parent |-> 0]

\* cobra's (*Command).AddCommand: the child is appended to the commands of c
\* and c becomes its parent.
AddCommand(h, c, child) ==
    [h EXCEPT ![c].commands = Append(@, child), ![child].parent = c]

\* Faulty variant: the Azure destroy command is not registered.
NewDestroyCommand_AWSOnly(h) ==
    LET cmd == Len(h) + 1
        h1 == Append(h, [Use |-> "infra",
                         Short |-> "Commands for destroying HyperShift infra resources",
                         SilenceUsage |-> TRUE, Run |-> Nil, Flags |-> {},
                         commands |-> << >>, parent |-> 0])
        h2 == Append(h1, aws_NewDestroyCommand)
    IN  AddCommand(h2, cmd, Len(h2))

\* NewDestroyCommand on the heap h: the heap with the new command (at
\* Len(h) + 1) and its two subcommands.
NewDestroyCommand(h) ==
    LET cmd == Len(h) + 1
        h1 == Append(h, [Use |-> "infra",
                         Short |-> "Commands for destroying HyperShift infra resources",
                         SilenceUsage |-> TRUE, Run |-> Nil, Flags |-> {},
                         commands |-> << >>, parent |-> 0])
        h2 == Append(h1, aws_NewDestroyCommand)
        h3 == AddCommand(h2, cmd, Len(h2))
        h4 == Append(h3, azure_NewDestroyCommand)
    IN  AddCommand(h4, cmd, Len(h4))

\* The object that ref points to in the heap h, with every address in it
\* replaced by what h holds there.
Deep(ref, h) ==
    LET struct == h[ref.self]
    IN  CASE ref.kind = "Deployment" ->
               [struct EXCEPT !.Replicas = h[@],
                              !.Containers[1].Env = h[@],
                              !.Containers[1].Args = h[@],
                              !.Volumes = h[@],
                              !.Containers[1].VolumeMounts = h[@]]
          [] ref.kind = "Secret" ->
               [struct EXCEPT !.Data = [k \in DOMAIN @ |-> h[@[k]]]]
          [] ref.kind = "Command" ->
               [struct EXCEPT !.commands = [i \in DOMAIN @ |-> h[@[i]].pkg]]

\* The addresses of the cells that can be written through ref.
Addrs(ref, h) ==
    LET struct == h[ref.self]
    IN  {ref.self} \cup
        CASE ref.kind = "Deployment" ->
               {struct.Replicas, struct.Containers[1].Env, struct.Containers[1].Args,
                struct.Volumes, struct.Containers[1].VolumeMounts}
          [] ref.kind = "Secret" -> {struct.Data[k] : k \in DOMAIN struct.Data}
          [] ref.kind = "Command" -> Range(struct.commands)

InitMem ==
    /\ builder \in MemBuilders
    /\ result = NotBuilt
    /\ heap = MemInitHeap
    /\ objs = << >>
    /\ snap = << >>
    /\ written = {}

\* The call returns the object of the given kind at the top of the cells it
\* added to the heap.
ReturnNew(kind, h) ==
    LET ref == [kind |-> kind, self |-> Len(heap) + 1]
    IN  /\ heap' = h
        /\ objs' = Append(objs, ref)
        /\ snap' = Append(snap, Deep(ref, h))
        /\ UNCHANGED <<builder, result, written>>

MemBuildHyperShiftOperatorDeployment ==
    /\ Len(objs) < MaxBuilds
    /\ LET o == builder.HyperShiftOperatorDeployment
       IN  ReturnNew("Deployment",
            StoreDeployment(heap, HyperShiftOperatorDeployment_Build(Load(o, heap)),
                            o.Replicas))

\* replicas is a local variable of the call: its address is a new cell.
MemBuildExternalDNSDeployment ==
    /\ Len(objs) < MaxBuilds
    /\ LET o == builder.ExternalDNSDeployment
       IN  ReturnNew("Deployment",
            StoreDeployment(heap, ExternalDNSDeployment_Build(Load(o, heap)),
                            Len(heap) + 2))

MemBuildHyperShiftOperatorCredentialsSecret ==
    /\ Len(objs) < MaxBuilds
    /\ LET o == builder.HyperShiftOperatorCredentialsSecret
       IN  ReturnNew("Secret",
            StoreSecret(heap, HyperShiftOperatorCredentialsSecret_Build(Load(o, heap)),
                        o.CredsBytes))

MemBuildHyperShiftOperatorOIDCProviderS3Secret ==
    /\ Len(objs) < MaxBuilds
    /\ LET o == builder.HyperShiftOperatorOIDCProviderS3Secret
       IN  ReturnNew("Secret",
            StoreSecret(heap,
                        HyperShiftOperatorOIDCProviderS3Secret_Build(Load(o, heap)),
                        o.OIDCStorageProviderS3CredBytes))

MemBuildExternalDNSCredsSecret ==
    /\ Len(objs) < MaxBuilds
    /\ LET o == builder.ExternalDNSCredsSecret
       IN  ReturnNew("Secret",
            StoreSecret(heap, ExternalDNSCredsSecret_Build(Load(o, heap)),
                        o.CredsBytes))

CallNewDestroyCommand ==
    /\ Len(objs) < MaxBuilds
    /\ ReturnNew("Command", NewDestroyCommand(heap))

\* The holder of the object objs[i] writes v to the cell at address a, which
\* it reaches through field f of the object.
WriteThrough(i, f, a, v) ==
    /\ <<i, f>> \notin written
    /\ Cardinality(written) < MaxWrites
    /\ heap' = [heap EXCEPT ![a] = v]
    /\ written' = written \cup {<<i, f>>}
    /\ UNCHANGED <<builder, result, objs, snap>>

Deployments == {i \in 1..Len(objs) : objs[i].kind = "Deployment"}
Secrets == {i \in 1..Len(objs) : objs[i].kind = "Secret"}
Commands == {i \in 1..Len(objs) : objs[i].kind = "Command"}

\* *d.Spec.Replicas = *d.Spec.Replicas + 1
WriteReplicas ==
    \E i \in Deployments :
        LET a == heap[objs[i].self].Replicas
        IN  WriteThrough(i, "Replicas", a, heap[a] + 1)

\* c.Env[0].Value = "changed", or an append within the slice's capacity
WriteEnv ==
    \E i \in Deployments :
        LET a == heap[objs[i].self].Containers[1].Env
        IN  WriteThrough(i, "Env", a,
                IF heap[a] = << >> THEN <<EnvVar("CHANGED", "changed")>>
                ELSE [heap[a] EXCEPT ![1].Value = "changed"])

\* c.Args[0] = "changed"
WriteArgs ==
    \E i \in Deployments :
        LET a == heap[objs[i].self].Containers[1].Args
        IN  WriteThrough(i, "Args", a, [heap[a] EXCEPT ![1] = "changed"])

\* d.Spec.Template.Spec.Volumes[0].Name = "changed", or an append within the
\* slice's capacity
WriteVolumes ==
    \E i \in Deployments :
        LET a == heap[objs[i].self].Volumes
        IN  WriteThrough(i, "Volumes", a,
                IF heap[a] = << >> THEN <<SecretVolume("changed", "changed")>>
                ELSE [heap[a] EXCEPT ![1].Name = "changed"])

\* c.VolumeMounts[0].Name = "changed", or an append within the slice's capacity
WriteVolumeMounts ==
    \E i \in Deployments :
        LET a == heap[objs[i].self].Containers[1].VolumeMounts
        IN  WriteThrough(i, "VolumeMounts", a,
                IF heap[a] = << >> THEN <<VolumeMount("changed", "/changed")>>
                ELSE [heap[a] EXCEPT ![1].Name = "changed"])

\* s.Data[key][0] = 0
WriteSecretData ==
    \E i \in Secrets :
        \E k \in DOMAIN heap[objs[i].self].Data :
            LET a == heap[objs[i].self].Data[k]
            IN  /\ Len(heap[a]) > 0
                /\ WriteThrough(i, "Data", a, [heap[a] EXCEPT ![1] = 0])

NextMem ==
    \/ MemBuildHyperShiftOperatorDeployment
    \/ MemBuildExternalDNSDeployment
    \/ MemBuildHyperShiftOperatorCredentialsSecret
    \/ MemBuildHyperShiftOperatorOIDCProviderS3Secret
    \/ MemBuildExternalDNSCredsSecret
    \/ CallNewDestroyCommand
    \/ WriteReplicas
    \/ WriteEnv
    \/ WriteArgs
    \/ WriteVolumes
    \/ WriteVolumeMounts
    \/ WriteSecretData

SpecMem == InitMem /\ [][NextMem]_vars

(***************************************************************************)
(* Properties of the builders and of NewDestroyCommand, checked under      *)
(* SpecMem.                                                                *)
(***************************************************************************)
\* The objects whose holder has written through them.
WrittenThrough == {w[1] : w \in written}

\* The object without the credential bytes of a Secret.
WithoutData(kind, value) ==
    IF kind = "Secret" THEN [value EXCEPT !.Data = DOMAIN @] ELSE value

\* C6 as stated: Build leaves the builder and every object it references
\* unchanged, and no two returned objects share mutable state: whatever is
\* written through one returned object, the builder's memory and every other
\* returned object stay as they were.
C6_Original_NoSharedState ==
    /\ \A a \in BuilderAddrs : heap[a] = MemInitHeap[a]
    /\ \A i \in 1..Len(objs) :
          i \notin WrittenThrough => Deep(objs[i], heap) = snap[i]

\* C6 as amended: Build leaves the builder and every object it references
\* unchanged, and the returned objects share no mutable state with one another
\* or with the builder, except that a Secret's Data holds the builder's own
\* credential byte slice: the bytes are shared by the builder and all the
\* Secrets built from it. Writes to the env, args, volumes, volume mounts or
\* replica count of one Deployment change neither the builder nor another
\* result.
C6_NoSharedStateButCredsBytes ==
    /\ written = {} => \A a \in BuilderAddrs : heap[a] = MemInitHeap[a]
    /\ \A a \in BuilderAddrs \ CredsBytesAddrs : heap[a] = MemInitHeap[a]
    /\ \A i \in 1..Len(objs) :
          /\ i \notin WrittenThrough
             => WithoutData(objs[i].kind, Deep(objs[i], heap))
                    = WithoutData(objs[i].kind, snap[i])
          /\ Addrs(objs[i], heap) \cap BuilderAddrs \subseteq CredsBytesAddrs
          /\ objs[i].kind = "Deployment"
             => Addrs(objs[i], heap) \cap BuilderAddrs = {}
          /\ \A j \in 1..Len(objs) :
                i # j => Addrs(objs[i], heap) \cap Addrs(objs[j], heap)
                            \subseteq CredsBytesAddrs

C6_Witness ==
    /\ Len(objs) >= 2
    /\ objs[1].kind = "Deployment"
    /\ objs[2].kind = "Deployment"
    /\ heap[objs[1].self].Name = heap[objs[2].self].Name
    /\ written = {<<1, "Replicas">>, <<1, "Env">>}
    /\ Deep(objs[1], heap).Replicas # snap[1].Replicas
    /\ Deep(objs[1], heap).Containers # snap[1].Containers
    /\ Deep(objs[2], heap) = snap[2]
    /\ heap[builder.HyperShiftOperatorDeployment.Replicas] = MaxReplicas

\* C9: NewDestroyCommand returns a command with the use name "infra", without
\* flags and without a run action of its own, whose subcommands are exactly
\* the AWS destroy command and the Azure destroy command; every call returns
\* a new command (and new subcommands) of that same shape.
C9_DestroyCommandShape ==
    \A i \in Commands :
       LET c == heap[objs[i].self]
       IN  /\ c.Use = "infra"
           /\ c.Flags = {}
           /\ c.Run = Nil
           /\ c.parent = 0
           /\ Len(c.commands) = 2
           /\ heap[c.commands[1]].pkg = "aws"
           /\ heap[c.commands[2]].pkg = "azure"
           /\ \A k \in 1..Len(c.commands) : heap[c.commands[k]].parent = objs[i].self
           /\ \A j \in Commands \ {i} :
                 /\ Addrs(objs[i], heap) \cap Addrs(objs[j], heap) = {}
                 /\ Deep(objs[i], heap) = Deep(objs[j], heap)

C9_Witness ==
    /\ Len(objs) >= 2
    /\ objs[1].kind = "Command"
    /\ objs[2].kind = "Command"
    /\ objs[1].self # objs[2].self
    /\ Len(heap[objs[2].self].commands) = 2

(***************************************************************************)
(* Further properties of the builders, checked under Spec.                 *)
(***************************************************************************)
\* C11: the pod spec of the operator Deployment is volume-consistent for every
\* private platform and OIDC setting: every volume mount of the container
\* names a declared volume, every declared volume is mounted, and no volume
\* name and no mount path occurs twice.
C11_VolumeConsistent ==
    Built("HyperShiftOperatorDeployment")
    => LET c == result.Containers[1]
           volumes == 1..Len(result.Volumes)
           mounts == 1..Len(c.VolumeMounts)
       IN  /\ \A m \in mounts : VolumesNamed(result, c.VolumeMounts[m].Name) # {}
           /\ \A v \in volumes : MountsNamed(c, result.Volumes[v].Name) # {}
           /\ \A v, w \in volumes :
                 result.Volumes[v].Name = result.Volumes[w].Name => v = w
           /\ \A m, n \in mounts :
                 c.VolumeMounts[m].MountPath = c.VolumeMounts[n].MountPath => m = n

C11_Witness ==
    /\ Built("HyperShiftOperatorDeployment")
    /\ builder.PrivatePlatform = AWSPlatform
    /\ HyperShiftOperatorDeployment_OIDC(builder)
    /\ Len(result.Volumes) = 3
    /\ Len(result.Containers[1].VolumeMounts) = 3

\* C12: in the external-dns Deployment the environment variables
\* AWS_SHARED_CREDENTIALS_FILE=/etc/provider/credentials and
\* AWS_REGION=us-east-1 and the argument --aws-zone-type=public are there if
\* and only if Provider is exactly "aws"; for every other Provider the
\* container has no environment variable and exactly the six base arguments,
\* --domain-filter and --provider carrying the configured values.
C12_ExternalDNSProviderWiring ==
    Built("ExternalDNSDeployment")
    => LET c == result.Containers[1]
           base == <<"--source=service",
                     "--source=openshift-route",
                     "--domain-filter=" \o builder.DomainFilter,
                     "--provider=" \o builder.Provider,
                     "--registry=noop",
                     "--txt-owner-id=hypershift">>
       IN  /\ SubSeq(c.Args, 1, 6) = base
           /\ IF builder.Provider = "aws"
              THEN /\ \E i \in EnvNamed(c, "AWS_SHARED_CREDENTIALS_FILE") :
                         c.Env[i].Value = "/etc/provider/credentials"
                   /\ \E i \in EnvNamed(c, "AWS_REGION") :
                         c.Env[i].Value = "us-east-1"
                   /\ "--aws-zone-type=public" \in Range(c.Args)
              ELSE /\ c.Env = << >>
                   /\ c.Args = base

C12_Witness ==
    /\ Built("ExternalDNSDeployment")
    /\ builder.Provider = "AWS"
    /\ builder.DomainFilter = "example.com"
    /\ result.Containers[1].Env = << >>
    /\ Len(result.Containers[1].Args) = 6

\* C13: the RoleBinding of HyperShiftOperatorPrometheusRoleBinding.Build has
\* exactly one subject, of kind ServiceAccount: prometheus-k8s in
\* openshift-monitoring when EnableOCPClusterMonitoring is true,
\* prometheus-user-workload in openshift-user-workload-monitoring when it is
\* false. The binding is in the configured Namespace and its RoleRef names the
\* supplied Role.
C13_PrometheusSubject ==
    Built("HyperShiftOperatorPrometheusRoleBinding")
    => /\ Len(result.Subjects) = 1
       /\ result.Subjects[1].Kind = "ServiceAccount"
       /\ result.Subjects[1].Name =
             IF builder.EnableOCPClusterMonitoring
             THEN "prometheus-k8s" ELSE "prometheus-user-workload"
       /\ result.Subjects[1].Namespace =
             IF builder.EnableOCPClusterMonitoring
             THEN "openshift-monitoring" ELSE "openshift-user-workload-monitoring"
       /\ result.Namespace = builder.Namespace.Name
       /\ result.RoleRef.Kind = "Role"
       /\ result.RoleRef.Name = builder.Role.Name

C13_Witness ==
    /\ Built("HyperShiftOperatorPrometheusRoleBinding")
    /\ builder.EnableOCPClusterMonitoring
    /\ builder.Role.Name = "prometheus"
    /\ result.Subjects[1].Name = "prometheus-k8s"

\* The values of the environment variable `name` of container c, and the
\* mount paths of its volume mounts called `name`.
EnvValues(c, name) == {c.Env[i].Value : i \in EnvNamed(c, name)}
MountPaths(c, name) == {c.VolumeMounts[i].MountPath : i \in MountsNamed(c, name)}

\* The paths of the files that a mount at one of `paths` shows for the data
\* keys of the Secret `secret`.
SecretFiles(paths, secret) ==
    {path \o "/" \o key : path \in paths, key \in DOMAIN secret.Data}

\* C14: the credential file path handed to the workload points at the key the
\* matching Secret builder writes. The "credentials" volume of the operator
\* Deployment references the Secret name of
\* HyperShiftOperatorCredentialsSecret.Build, and in the operator Deployment
\* (AWS platform) and the external-dns Deployment (aws provider)
\* AWS_SHARED_CREDENTIALS_FILE is the mount path of the "credentials" volume,
\* "/" and the data key under which HyperShiftOperatorCredentialsSecret.Build,
\* respectively ExternalDNSCredsSecret.Build, stores the credential bytes.
C14_CredentialsFilePath ==
    /\ Built("HyperShiftOperatorDeployment")
       => \A bytes \in CredsBytesValues :
            LET secret == HyperShiftOperatorCredentialsSecret_Build(
                              [Namespace |-> builder.Namespace, CredsBytes |-> bytes])
                c == result.Containers[1]
            IN  /\ \A i \in VolumesNamed(result, "credentials") :
                      result.Volumes[i].Secret.SecretName = secret.Name
                /\ builder.PrivatePlatform = AWSPlatform
                   => /\ Cardinality(DOMAIN secret.Data) = 1
                      /\ Cardinality(MountPaths(c, "credentials")) = 1
                      /\ EnvValues(c, "AWS_SHARED_CREDENTIALS_FILE")
                            = SecretFiles(MountPaths(c, "credentials"), secret)
    /\ (Built("ExternalDNSDeployment") /\ builder.Provider = "aws")
       => \A bytes \in CredsBytesValues :
            LET secret == ExternalDNSCredsSecret_Build(
                              [Namespace |-> builder.Namespace, CredsBytes |-> bytes])
                c == result.Containers[1]
            IN  /\ Cardinality(DOMAIN secret.Data) = 1
                /\ Cardinality(MountPaths(c, "credentials")) = 1
                /\ EnvValues(c, "AWS_SHARED_CREDENTIALS_FILE")
                      = SecretFiles(MountPaths(c, "credentials"), secret)

C14_Witness ==
    /\ Built("HyperShiftOperatorDeployment")
    /\ builder.PrivatePlatform = AWSPlatform
    /\ EnvValues(result.Containers[1], "AWS_SHARED_CREDENTIALS_FILE")
          = {"/etc/provider/credentials"}
    /\ MountPaths(result.Containers[1], "credentials") = {"/etc/provider"}

\* Every label of the selector `selector` is carried, with the same value, by
\* the label set `labels`.
Selects(selector, labels) ==
    \A k \in DOMAIN selector : k \in DOMAIN labels /\ labels[k] = selector[k]

\* C15: the operator objects select each other for every configuration. The
\* selector of each Deployment (operator, external-dns) is a subset of its pod
\* template labels; the selector of the Service of
\* HyperShiftOperatorService.Build is a subset of the operator pod template
\* labels and its target port "metrics" is a port name of the operator
\* container; the ServiceMonitor of HyperShiftServiceMonitor.Build selects the
\* labels of the Service and scrapes a port name the Service declares; built
\* from the same Namespace, they are all in the same namespace.
C15_ObjectsSelectEachOther ==
    /\ Built("ExternalDNSDeployment")
       => Selects(result.Selector, result.TemplateLabels)
    /\ Built("HyperShiftOperatorDeployment")
       => LET service == HyperShiftOperatorService_Build([Namespace |-> builder.Namespace])
              ports == result.Containers[1].Ports
          IN  /\ Selects(result.Selector, result.TemplateLabels)
              /\ DOMAIN result.Selector # {}
              /\ Selects(service.Selector, result.TemplateLabels)
              /\ DOMAIN service.Selector # {}
              /\ \A p \in 1..Len(service.Ports) :
                    /\ service.Ports[p].TargetPort = "metrics"
                    /\ \E q \in 1..Len(ports) :
                          ports[q].Name = service.Ports[p].TargetPort
              /\ service.Namespace = result.Namespace
    /\ Built("HyperShiftServiceMonitor")
       => LET service == HyperShiftOperatorService_Build([Namespace |-> builder.Namespace])
          IN  /\ Selects(result.Selector, service.Labels)
              /\ DOMAIN result.Selector # {}
              /\ Len(result.Endpoints) > 0
              /\ \A e \in 1..Len(result.Endpoints) :
                    \E p \in 1..Len(service.Ports) :
                       service.Ports[p].Name = result.Endpoints[e].Port
              /\ service.Namespace = result.Namespace

C15_Witness ==
    /\ Built("HyperShiftOperatorDeployment")
    /\ builder.PrivatePlatform = AWSPlatform
    /\ result.Namespace = "hypershift"
    /\ result.Selector = ("name" :> "operator")
    /\ "app" \in DOMAIN result.TemplateLabels
    /\ Len(result.Containers[1].Ports) = 1

\* A policy rule grants `verb` on `resource` of API group `group`: "*" stands
\* for every group, resource or verb (rbacv1.PolicyRule).
Grants(rule, group, resource, verb) ==
    /\ group \in Range(rule.APIGroups) \/ "*" \in Range(rule.APIGroups)
    /\ resource \in Range(rule.Resources) \/ "*" \in Range(rule.Resources)
    /\ verb \in Range(rule.Verbs) \/ "*" \in Range(rule.Verbs)

\* C16: the ClusterRole of HyperShiftReaderClusterRole.Build is read-only.
\* Every rule grants only verbs from {get, list, watch}; no rule grants any
\* access to the core-group resource "secrets"; and every (API group,
\* resource) pair it grants read access to is covered, for the verbs granted,
\* by a rule of the ClusterRole of HyperShiftOperatorClusterRole.Build.
C16_ReaderRoleReadOnly ==
    Built("HyperShiftReaderClusterRole")
    => LET rules == Range(result.Rules)
           operator == Range(HyperShiftOperatorClusterRole_Build(Nil).Rules)
       IN  /\ rules # {}
           /\ \A rule \in rules :
                 /\ Range(rule.Verbs) \subseteq {"get", "list", "watch"}
                 /\ Range(rule.Verbs) # {}
                 /\ \A verb \in {"*"} \cup Range(rule.Verbs) :
                       ~Grants(rule, "", "secrets", verb)
                 /\ \A group \in Range(rule.APIGroups) :
                    \A resource \in Range(rule.Resources) :
                       \E covering \in operator :
                          \A verb \in Range(rule.Verbs) :
                             Grants(covering, group, resource, verb)

C16_Witness ==
    /\ Built("HyperShiftReaderClusterRole")
    /\ result.Name = "hypershift-readers"
    /\ \E rule \in Range(result.Rules) :
          /\ "" \in Range(rule.APIGroups)
          /\ "configmaps" \in Range(rule.Resources)
          /\ Range(rule.Verbs) = {"get", "list", "watch"}
    /\ \E rule \in Range(HyperShiftOperatorClusterRole_Build(Nil).Rules) :
          Grants(rule, "", "secrets", "get")

\* C17: the three priority classes have pairwise distinct names and strictly
\* ordered values: the value of HyperShiftEtcdPriorityClass is greater than
\* the value of HyperShiftAPICriticalPriorityClass, which is greater than the
\* value of HyperShiftControlPlanePriorityClass. Each is named by its exported
\* constant and none is the global default.
C17_PriorityClassesOrdered ==
    LET etcd == HyperShiftEtcdPriorityClass_Build(Nil)
        api == HyperShiftAPICriticalPriorityClass_Build(Nil)
        controlPlane == HyperShiftControlPlanePriorityClass_Build(Nil)
    IN  /\ Built("HyperShiftEtcdPriorityClass")
           => /\ result = etcd
              /\ result.Name = EtcdPriorityClass
              /\ result.Name \notin {api.Name, controlPlane.Name}
              /\ result.Value > api.Value
              /\ ~result.GlobalDefault
        /\ Built("HyperShiftAPICriticalPriorityClass")
           => /\ result = api
              /\ result.Name = APICriticalPriorityClass
              /\ result.Name \notin {etcd.Name, controlPlane.Name}
              /\ etcd.Value > result.Value
              /\ result.Value > controlPlane.Value
              /\ ~result.GlobalDefault
        /\ Built("HyperShiftControlPlanePriorityClass")
           => /\ result = controlPlane
              /\ result.Name = DefaultPriorityClass
              /\ result.Name \notin {etcd.Name, api.Name}
              /\ api.Value > result.Value
              /\ ~result.GlobalDefault

C17_Witness ==
    /\ Built("HyperShiftAPICriticalPriorityClass")
    /\ result.Name = "hypershift-api-critical"
    /\ result.Value = 100001000

====
